---- MODULE Spec2Model ----
(***************************************************************************)
(* State-machine model of MT5Bridge (src/mt5_bridge.py): one asyncio event *)
(* loop running start_server, one price_feed_worker task and one           *)
(* handle_client task per WebSocket connection.  A step of the model is    *)
(* the code a task runs between two suspension points (await).             *)
(*                                                                         *)
(* Three specifications:                                                   *)
(*   Spec         the tasks with the messages about subscriptions          *)
(*   SpecCommand  one call of handle_client_message on its own             *)
(*   SpecGateway  the tasks from start to stop, with one command of each   *)
(*                action and every call to the venue as a step of its own  *)
(*                                                                         *)
(* Optional values (dict.get results, None returns) are sequences of       *)
(* length at most one: <<>> is None / absent, <<v>> is the value v.        *)
(* Volumes are counted in hundredths of a lot (1 is 0.01 lot).             *)
(***************************************************************************)
EXTENDS Integers, Sequences, FiniteSets, TLC

\* Number of WebSocket connections the model follows.
NumClients == 2

Clients == 1..NumClients

\* Venue symbols the clients name in their commands.
Symbols == {"EURUSD", "GBPUSD"}

\* Bid/ask pairs mt5.symbol_info can report.
Quotes == {[bid |-> 10, ask |-> 12]}

None == <<>>

Some(v) == <<v>>

Opt(S) == {None} \cup {Some(v) : v \in S}

\* What the venue answers to mt5.symbol_info during one synchronous stretch
\* of code: per symbol a quote or None.
VenueQuotes == [Symbols -> Opt(Quotes)]

\* All orders in which list(set) can enumerate a set.
RECURSIVE Orderings(_)
Orderings(S) ==
    IF S = {} THEN {<<>>}
    ELSE UNION {{<<x>> \o rest : rest \in Orderings(S \ {x})} : x \in S}

-----------------------------------------------------------------------------
(* Quote lookup, lines 79-111 *)

\* get_symbol_info: None when mt5.symbol_info returns None or raises,
\* otherwise the quote dictionary (the fields the bridge reads back).
get_symbol_info(symbol, venue) ==
    IF symbol \in DOMAIN venue /\ venue[symbol] # None
    THEN Some([symbol |-> symbol,
               bid |-> venue[symbol][1].bid,
               ask |-> venue[symbol][1].ask])
    ELSE None

\* Faulty variant of get_current_prices: the first failed lookup ends the loop.
RECURSIVE get_current_prices_abort(_, _)
get_current_prices_abort(symbols, venue) ==
    IF symbols = <<>> THEN <<>>
    ELSE LET symbol_info == get_symbol_info(Head(symbols), venue)
         IN  IF symbol_info # None
             THEN <<[type |-> "price", data |-> symbol_info[1]]>>
                  \o get_current_prices_abort(Tail(symbols), venue)
             ELSE <<>>

\* get_current_prices: one 'price' record per symbol whose lookup succeeds,
\* in list order; failed lookups are skipped.
RECURSIVE get_current_prices(_, _)
get_current_prices(symbols, venue) ==
    IF symbols = <<>> THEN <<>>
    ELSE LET symbol_info == get_symbol_info(Head(symbols), venue)
             rest == get_current_prices(Tail(symbols), venue)
         IN  IF symbol_info # None
             THEN <<[type |-> "price", data |-> symbol_info[1]]>> \o rest
             ELSE rest

\* The market_data record built from one price record (lines 124-139).
formatted_data(price_data) ==
    [type |-> "market_data",
     symbol |-> price_data.data.symbol,
     open |-> price_data.data.bid,
     high |-> price_data.data.ask,
     low |-> price_data.data.bid,
     close |-> price_data.data.bid,
     bid |-> price_data.data.bid,
     ask |-> price_data.data.ask]

-----------------------------------------------------------------------------
(* Client commands and venue answers *)

\* mt5.TRADE_RETCODE_DONE, compared with at lines 253 and 304.
TRADE_RETCODE_DONE == 10009

\* The default of trade_data.get('volume', 0.01), in hundredths of a lot.
DEFAULT_VOLUME == 1

Tickets == {501}

\* A parsed client message; BadJson is a text json.loads rejects.
Command(action, symbol, type, volume, price, ticket) ==
    [json |-> TRUE, action |-> action, symbol |-> symbol, type |-> type,
     volume |-> volume, price |-> price, ticket |-> ticket]

BadJson ==
    [json |-> FALSE, action |-> None, symbol |-> None, type |-> None,
     volume |-> None, price |-> None, ticket |-> None]

\* What mt5.order_send can return: None, or a result with its retcode.
OrderResults ==
    Opt({[retcode |-> TRADE_RETCODE_DONE, order |-> 9001, price |-> 12,
          comment |-> "Request executed"],
         [retcode |-> 10006, order |-> 0, price |-> 0,
          comment |-> "Request rejected"]})

\* Open positions mt5.positions_get can return for a ticket.
Positions ==
    {[type |-> "ORDER_TYPE_BUY", symbol |-> "EURUSD", volume |-> 10],
     [type |-> "ORDER_TYPE_SELL", symbol |-> "GBPUSD", volume |-> 25]}

\* The venue as one synchronous stretch of code sees it.
\*   quotes       mt5.symbol_info per symbol
\*   order_send   what mt5.order_send returns to the next call
\*   positions    the open position of each ticket, if any
\*   unfiltered   what mt5.positions_get(ticket=None) returns
Venue(quotes, order_send, positions, unfiltered) ==
    [quotes |-> quotes, order_send |-> order_send, positions |-> positions,
     unfiltered |-> unfiltered]

Venues ==
    {Venue(q, o, p, u) : q \in VenueQuotes, o \in OrderResults,
                         p \in [Tickets -> Opt(Positions)], u \in Opt(Positions)}

\* A result dictionary of execute_trade or close_position; the keys a
\* dictionary does not have are None here.
Result(success, ticket, price, volume, symbol, type, error, retcode) ==
    [success |-> success, ticket |-> ticket, price |-> price,
     volume |-> volume, symbol |-> symbol, type |-> type, error |-> error,
     retcode |-> retcode, close_price |-> None]

\* {'success': False, 'error': str(e)} of the except branches.
Raised == Result(FALSE, None, None, None, None, None, Some(<<"str(e)">>), None)

-----------------------------------------------------------------------------
(* execute_trade, lines 217-277 *)

\* The request dictionary of lines 237-248 (the fields that vary).
TradeRequest(symbol, volume, order_type, price) ==
    [action |-> "TRADE_ACTION_DEAL", symbol |-> symbol, volume |-> volume,
     type |-> order_type, price |-> price, position |-> None]

\* 'not price' at line 232: the key is absent, or its value is zero.
NotPrice(price) == price = None \/ price[1] = 0

\* The volume of line 222.
trade_volume(trade_data) ==
    IF trade_data.volume = None THEN DEFAULT_VOLUME
    ELSE trade_data.volume[1]

\* Line 229.
trade_order_type(trade_data) ==
    IF trade_data.type = Some("buy") THEN "ORDER_TYPE_BUY"
    ELSE "ORDER_TYPE_SELL"

\* mt5.symbol_info(symbol) at line 233: the quote, or None.
trade_symbol_info(trade_data, venue) ==
    IF trade_data.symbol # None /\ trade_data.symbol[1] \in DOMAIN venue.quotes
    THEN venue.quotes[trade_data.symbol[1]]
    ELSE None

\* Faulty variant of trade_price: the sides of the quote are swapped.
trade_price_swapped(trade_data, venue) ==
    IF NotPrice(trade_data.price)
    THEN IF trade_data.type = Some("buy")
         THEN trade_symbol_info(trade_data, venue)[1].bid
         ELSE trade_symbol_info(trade_data, venue)[1].ask
    ELSE trade_data.price[1]

\* The price of the request, lines 223 and 232-234 (the lookup succeeded).
trade_price(trade_data, venue) ==
    IF NotPrice(trade_data.price)
    THEN IF trade_data.type = Some("buy")
         THEN trade_symbol_info(trade_data, venue)[1].ask
         ELSE trade_symbol_info(trade_data, venue)[1].bid
    ELSE trade_data.price[1]

trade_request(trade_data, venue) ==
    TradeRequest(trade_data.symbol, trade_volume(trade_data),
                 trade_order_type(trade_data), trade_price(trade_data, venue))

\* The result dictionary for what mt5.order_send returned, lines 253-270.
trade_reply(trade_data, result) ==
    IF result = None
    THEN \* result.retcode raises AttributeError (line 253)
         Raised
    ELSE IF result[1].retcode # TRADE_RETCODE_DONE
    THEN Result(FALSE, None, None, None, None, None,
                Some(<<"Trade failed: ", result[1].comment>>),
                Some(result[1].retcode))
    ELSE Result(TRUE, Some(result[1].order), Some(result[1].price),
                Some(trade_volume(trade_data)), trade_data.symbol,
                trade_data.type, None, None)

\* Faulty variant of execute_trade: a rejected request is sent a second time.
execute_trade_retry(trade_data, venue) ==
    IF NotPrice(trade_data.price) /\ trade_symbol_info(trade_data, venue) = None
    THEN [result |-> Raised, orders |-> <<>>]
    ELSE [result |-> trade_reply(trade_data, venue.order_send),
          orders |->
            IF /\ venue.order_send # None
               /\ venue.order_send[1].retcode # TRADE_RETCODE_DONE
            THEN <<trade_request(trade_data, venue),
                   trade_request(trade_data, venue)>>
            ELSE <<trade_request(trade_data, venue)>>]

\* execute_trade: the result dictionary and the requests handed to
\* mt5.order_send, in order.  symbol_info.ask raises AttributeError at line
\* 234 when the lookup returned None, and no request is sent.
execute_trade(trade_data, venue) ==
    IF NotPrice(trade_data.price) /\ trade_symbol_info(trade_data, venue) = None
    THEN [result |-> Raised, orders |-> <<>>]
    ELSE [result |-> trade_reply(trade_data, venue.order_send),
          orders |-> <<trade_request(trade_data, venue)>>]

-----------------------------------------------------------------------------
(* close_position, lines 279-321 *)

\* mt5.positions_get(ticket=ticket).
positions_get(ticket, venue) ==
    IF ticket = None THEN venue.unfiltered
    ELSE IF ticket[1] \in DOMAIN venue.positions
         THEN venue.positions[ticket[1]]
         ELSE None

\* The request dictionary of lines 291-300.
CloseRequest(position, close_type, ticket) ==
    [action |-> "TRADE_ACTION_DEAL", symbol |-> Some(position.symbol),
     volume |-> position.volume, type |-> close_type, price |-> 0,
     position |-> ticket]

PositionNotFound ==
    Result(FALSE, None, None, None, None, None,
           Some(<<"Position not found">>), None)

\* Faulty variant of close_position: the test of line 283 is missing, and
\* positions[0] raises for a ticket without a position.
close_position_unchecked(ticket, venue) ==
    LET positions == positions_get(ticket, venue)
        position == positions[1]
        close_type == IF position.type = "ORDER_TYPE_BUY"
                      THEN "ORDER_TYPE_SELL" ELSE "ORDER_TYPE_BUY"
        request == CloseRequest(position, close_type, ticket)
    IN  IF positions = None
        THEN [result |-> Raised, orders |-> <<>>]
        ELSE [result |-> Raised, orders |-> <<request>>]

\* Faulty variant of close_position: the closing request has the side of the
\* position.
close_position_same_side(ticket, venue) ==
    LET positions == positions_get(ticket, venue)
        position == positions[1]
        request == CloseRequest(position, position.type, ticket)
        result == venue.order_send
    IN  IF positions = None
        THEN [result |-> PositionNotFound, orders |-> <<>>]
        ELSE IF result = None
        THEN [result |-> Raised, orders |-> <<request>>]
        ELSE IF result[1].retcode # TRADE_RETCODE_DONE
        THEN [result |-> Result(FALSE, None, None, None, None, None,
                                Some(<<"Close failed: ", result[1].comment>>),
                                Some(result[1].retcode)),
              orders |-> <<request>>]
        ELSE [result |-> [Result(TRUE, ticket, None, None, None, None, None,
                                 None)
                            EXCEPT !.close_price = Some(result[1].price)],
              orders |-> <<request>>]

\* close_position: the result dictionary and the requests handed to
\* mt5.order_send, in order.
close_position(ticket, venue) ==
    LET positions == positions_get(ticket, venue)
        position == positions[1]
        close_type == IF position.type = "ORDER_TYPE_BUY"
                      THEN "ORDER_TYPE_SELL" ELSE "ORDER_TYPE_BUY"
        request == CloseRequest(position, close_type, ticket)
        result == venue.order_send
    IN  IF positions = None
        THEN [result |-> PositionNotFound, orders |-> <<>>]
        ELSE IF result = None
        THEN [result |-> Raised, orders |-> <<request>>]
        ELSE IF result[1].retcode # TRADE_RETCODE_DONE
        THEN [result |-> Result(FALSE, None, None, None, None, None,
                                Some(<<"Close failed: ", result[1].comment>>),
                                Some(result[1].retcode)),
              orders |-> <<request>>]
        ELSE [result |-> [Result(TRUE, ticket, None, None, None, None, None,
                                 None)
                            EXCEPT !.close_price = Some(result[1].price)],
              orders |-> <<request>>]

-----------------------------------------------------------------------------
(* handle_client_message, lines 164-215 *)

\* A message handed to websocket.send.
Message(to, type, symbol, data) ==
    [to |-> to, type |-> type, symbol |-> symbol, data |-> data]

\* What one call does before its first suspension: the new
\* subscribed_symbols, the message it then awaits the sending of (None when
\* it sends nothing) and the requests it handed to mt5.order_send.
Handled(subs, out, orders) == [subs |-> subs, out |-> out, orders |-> orders]

\* Faulty variant of on_subscribe: the symbol is added only once its quote is there.
on_subscribe_after_quote(websocket, data, subs, venue) ==
    LET symbol == data.symbol
        symbol_info == get_symbol_info(symbol[1], venue.quotes)
    IN  IF symbol = None THEN Handled(subs, None, <<>>)
        ELSE IF symbol_info = None THEN Handled(subs, None, <<>>)
        ELSE Handled(subs \cup {symbol[1]},
                     Some(Message(websocket, "price", symbol, symbol_info[1])),
                     <<>>)

\* Lines 170-183.
on_subscribe(websocket, data, subs, venue) ==
    LET symbol == data.symbol
        symbol_info == get_symbol_info(symbol[1], venue.quotes)
    IN  IF symbol = None THEN Handled(subs, None, <<>>)
        ELSE Handled(subs \cup {symbol[1]},
                     IF symbol_info = None THEN None
                     ELSE Some(Message(websocket, "price", symbol,
                                       symbol_info[1])),
                     <<>>)

\* Lines 185-189.
on_unsubscribe(websocket, data, subs, venue) ==
    IF data.symbol # None /\ data.symbol[1] \in subs
    THEN Handled(subs \ {data.symbol[1]}, None, <<>>)
    ELSE Handled(subs, None, <<>>)

\* Faulty variant of on_trade: an exception of execute_trade is not turned
\* into a result and no message is sent.
on_trade_unanswered(websocket, data, subs, venue) ==
    LET done == execute_trade(data, venue)
    IN  Handled(subs,
                IF done.result = Raised THEN None
                ELSE Some(Message(websocket, "trade_result", None,
                                  done.result)),
                done.orders)

\* Lines 191-196.
on_trade(websocket, data, subs, venue) ==
    LET done == execute_trade(data, venue)
    IN  Handled(subs,
                Some(Message(websocket, "trade_result", None, done.result)),
                done.orders)

\* Lines 198-203.
on_close(websocket, data, subs, venue) ==
    LET done == close_position(data.ticket, venue)
    IN  Handled(subs,
                Some(Message(websocket, "close_result", None, done.result)),
                done.orders)

\* Lines 205-210; the account dictionary is not looked into.
on_account_info(websocket, data, subs, venue) ==
    Handled(subs, Some(Message(websocket, "account", None, <<"account">>)),
            <<>>)

handle_client_message(websocket, message, subs, venue) ==
    IF ~message.json THEN Handled(subs, None, <<>>)
    ELSE CASE message.action = Some("subscribe") ->
                on_subscribe(websocket, message, subs, venue)
           [] message.action = Some("unsubscribe") ->
                on_unsubscribe(websocket, message, subs, venue)
           [] message.action = Some("trade") ->
                on_trade(websocket, message, subs, venue)
           [] message.action = Some("close") ->
                on_close(websocket, message, subs, venue)
           [] message.action = Some("account_info") ->
                on_account_info(websocket, message, subs, venue)
           [] OTHER -> Handled(subs, None, <<>>)

-----------------------------------------------------------------------------
(* Inputs *)

Actions == {"subscribe", "unsubscribe", "trade", "close", "account_info"}

Volumes == {0, 10}

Prices == {0, 7}

\* Every trade command over the input sets.
TradeCommands ==
    {Command(Some("trade"), s, t, v, p, None) :
        s \in Opt(Symbols), t \in Opt({"buy", "sell"}),
        v \in Opt(Volumes), p \in Opt(Prices)}

CloseCommands ==
    {Command(Some("close"), None, None, None, None, k) : k \in Opt(Tickets)}

\* The messages a client sends in the concurrent model: every subscribe,
\* unsubscribe and close command, trade commands for a full-size EURUSD
\* order, account_info, an unknown action, no action and a text that is no
\* JSON.
ClientMessages ==
    {Command(Some(a), s, None, None, None, None) :
        a \in {"subscribe", "unsubscribe"}, s \in Opt(Symbols)}
    \cup {m \in TradeCommands :
            m.symbol = Some("EURUSD") /\ m.volume = Some(10) /\ m.type # None}
    \cup CloseCommands
    \cup {Command(a, None, None, None, None, None) :
            a \in {Some("account_info"), Some("ping"), None}}
    \cup {BadJson}

\* The messages about subscriptions, with the ones that are dropped.
SubscriptionMessages ==
    {m \in ClientMessages :
        m.action \in {Some("subscribe"), Some("unsubscribe"), Some("ping"),
                      None}}

NoQuotes == [s \in Symbols |-> None]

NoPositions == [k \in Tickets |-> None]

\* The venue answers that a message's handling can read; the others are
\* fixed, so that no answer is enumerated that nothing looks at.
VenuesFor(message) ==
    LET a == message.action
    IN  {v \in Venues :
           /\ a \notin {Some("subscribe"), Some("trade")} => v.quotes = NoQuotes
           /\ a \notin {Some("trade"), Some("close")} => v.order_send = None
           /\ a # Some("close") =>
                v.positions = NoPositions /\ v.unfiltered = None}

-----------------------------------------------------------------------------
VARIABLES
    srv,                  \* start_server: "init", "starting", "serving",
                          \* "stopped", "failed"
    mt5_connected,        \* self.mt5_connected
    running,              \* self.running
    connected_clients,    \* self.connected_clients
    subscribed_symbols,   \* self.subscribed_symbols
    hpc,                  \* per connection: where its handle_client task is:
                          \* "new", "greet", "hello", "recv", "call", "send",
                          \* "done"
    open,                 \* per connection: the transport is not closed
    pending,              \* per connection: envelope of the message its
                          \* handler is sending
    fpc,                  \* where the price_feed_worker task is: "off",
                          \* "sleep", "lookup", "sending", "tick_done", "ended"
    prices,               \* price_feed_worker: price records still to fan out
    todo,                 \* price_feed_worker: clients of the copy not yet sent to
    disconnected_clients, \* price_feed_worker: disconnected_clients
    clientSubs,           \* history: symbols each client subscribed to and has
                          \* not unsubscribed from since
    tick,                 \* history of the broadcast tick in progress
    call,                 \* history: the last call of handle_client_message
                          \* applied on its own (see SpecCommand)
    life                  \* history of start_server: how initialize_mt5
                          \* ended, the price feed tasks created and the
                          \* calls of mt5.shutdown

vars == <<srv, mt5_connected, running, connected_clients, subscribed_symbols,
          hpc, open, pending, fpc, prices, todo, disconnected_clients,
          clientSubs, tick, call, life>>

serverVars == <<srv, mt5_connected, running, call, life>>
feedVars == <<fpc, prices, todo, disconnected_clients, tick>>

\* The history of a tick:
\*   active    subscribed_symbols as the tick read it (empty when the test
\*             of line 119 failed)
\*   avail     the active symbols the venue had a quote for
\*   fetched   the symbols of the price records get_current_prices returned
\*   fanned    the symbols whose loop over the clients has ended
\*   targets   <<client, symbol>>: the client was in the copy of the client
\*             set taken for the symbol
\*   got       <<client, symbol>>: the send returned
\*   failed    <<client, symbol>>: the send raised
\*   steady    <<client, symbol>>: the client was connected and subscribed
\*             to the symbol when the tick began, and has not unsubscribed
\*             from it since
\* The tick history before any tick has run.
NoTick ==
    [active |-> {}, avail |-> {}, fetched |-> {}, fanned |-> {},
     targets |-> {}, got |-> {}, failed |-> {}, steady |-> {}]

\* The call history before any call.
NoCall ==
    [websocket |-> 0, message |-> BadJson, subs |-> {},
     venue |-> Venue(NoQuotes, None, NoPositions, None),
     done |-> Handled({}, None, <<>>)]

\* The history of start_server before it is called.
NoLife == [init |-> "none", feeds |-> 0, shutdowns |-> 0]

Init ==
    /\ srv = "init"
    /\ mt5_connected = FALSE
    /\ running = FALSE
    /\ connected_clients = {}
    /\ subscribed_symbols = {}
    /\ hpc = [c \in Clients |-> "new"]
    /\ open = [c \in Clients |-> FALSE]
    /\ pending = [c \in Clients |-> None]
    /\ fpc = "off"
    /\ prices = <<>>
    /\ todo = {}
    /\ disconnected_clients = {}
    /\ clientSubs = [c \in Clients |-> {}]
    /\ tick = NoTick
    /\ call = NoCall
    /\ life = NoLife

-----------------------------------------------------------------------------
(* start_server and initialize_mt5, lines 51-77 and 371-390 *)

\* How the calls of initialize_mt5 to the venue can end: all succeed,
\* mt5.initialize returns false, mt5.login returns false, mt5.account_info
\* returns None, or one of them raises.
InitOutcomes ==
    {"ok", "initialize_failed", "login_failed", "no_account", "raised"}

\* Faulty variant of initialize_mt5: the test of the account lookup at lines
\* 66-68 is missing.
initialize_mt5_unchecked_account(outcome) ==
    [ok |-> outcome \in {"ok", "no_account"},
     mt5_connected |-> outcome \in {"ok", "no_account"},
     shutdowns |-> IF outcome = "login_failed" THEN 1 ELSE 0]

\* initialize_mt5: what it returns, what it leaves in self.mt5_connected and
\* how often it called mt5.shutdown (line 62, after a failed login).
initialize_mt5(outcome) ==
    [ok |-> outcome = "ok",
     mt5_connected |-> outcome = "ok",
     shutdowns |-> IF outcome = "login_failed" THEN 1 ELSE 0]

\* initialize_mt5 returns True (it has no suspension point): the session is
\* live, running is set and the price feed task is created (lines 72, 380-383).
\* The task starts at its while test; start_server suspends in
\* websockets.serve.
StartOk ==
    /\ srv = "init"
    /\ \E outcome \in InitOutcomes :
         LET init == initialize_mt5(outcome)
         IN  /\ init.ok
             /\ mt5_connected' = init.mt5_connected
             /\ life' = [init |-> outcome, feeds |-> life.feeds + 1,
                         shutdowns |-> life.shutdowns + init.shutdowns]
    /\ srv' = "starting"
    /\ running' = TRUE
    /\ fpc' = "sleep"
    /\ UNCHANGED <<connected_clients, subscribed_symbols, hpc, open, pending,
                   prices, todo, disconnected_clients, clientSubs, tick,
                   call>>

\* initialize_mt5 returns False (initialize, login or account_info failed,
\* or raised): start_server returns at line 378.
StartFail ==
    /\ srv = "init"
    /\ \E outcome \in InitOutcomes :
         LET init == initialize_mt5(outcome)
         IN  /\ ~init.ok
             /\ mt5_connected' = init.mt5_connected
             /\ life' = [init |-> outcome, feeds |-> life.feeds,
                         shutdowns |-> life.shutdowns + init.shutdowns]
    /\ srv' = "failed"
    /\ UNCHANGED <<running, connected_clients,
                   subscribed_symbols, hpc, open, pending, clientSubs, call>>
    /\ UNCHANGED feedVars

\* websockets.serve returns: connections are accepted from now on.
Serve ==
    /\ srv = "starting"
    /\ srv' = "serving"
    /\ UNCHANGED <<mt5_connected, running, connected_clients,
                   subscribed_symbols, hpc, open, pending, clientSubs, call,
                   life>>
    /\ UNCHANGED feedVars

-----------------------------------------------------------------------------
(* price_feed_worker, lines 113-162 *)

\* The feed task is between two of its suspension points only in the state
\* "tick_done" (last send of a tick returned, asyncio.sleep not yet called):
\* no other task runs there.
FeedSuspended == fpc # "tick_done"

Symbol(price_data) == formatted_data(price_data).symbol

\* Faulty variant of AfterSend: a failed send ends the loop over the clients.
AfterSend_break(client, ok, rest, disconnected) ==
    IF ok
    THEN [todo |-> rest \ {client}, disconnected |-> disconnected]
    ELSE [todo |-> {}, disconnected |-> disconnected \cup {client}]

\* One pass of the loop body at lines 146-153: a send that raises puts the
\* client in disconnected_clients, and the loop goes on with the others.
AfterSend(client, ok, rest, disconnected) ==
    [todo |-> rest \ {client},
     disconnected |->
        IF ok THEN disconnected ELSE disconnected \cup {client}]

\* Faulty variant of RemoveDisconnected: a failed send empties the client set.
RemoveDisconnected_all(clients, disconnected) ==
    IF disconnected = {} THEN clients ELSE {}

\* Line 156.
RemoveDisconnected(clients, disconnected) == clients \ disconnected

\* The symbols of a sequence of price records.
SymbolsOf(ps) == {Symbol(ps[i]) : i \in DOMAIN ps}

\* With the while test true, the tick runs up to its first suspension: the
\* quotes of all active symbols are looked up, and the copy of the client
\* set is taken for the first price record.  The task is at `from`.
TickFrom(from) ==
    /\ fpc = from
    /\ running /\ mt5_connected
    /\ \E venue \in VenueQuotes :
        \E order \in Orderings(subscribed_symbols) :
          LET entered == subscribed_symbols # {} /\ connected_clients # {}
              fetched == IF entered THEN get_current_prices(order, venue)
                         ELSE <<>>
              history ==
                [active |-> IF entered THEN subscribed_symbols ELSE {},
                 avail |-> IF entered
                           THEN {s \in subscribed_symbols : venue[s] # None}
                           ELSE {},
                 fetched |-> SymbolsOf(fetched),
                 fanned |-> {},
                 targets |-> {},
                 got |-> {},
                 failed |-> {},
                 steady |-> {<<c, s>> \in Clients \X Symbols :
                               /\ hpc[c] \in {"hello", "recv", "send"}
                               /\ open[c]
                               /\ s \in clientSubs[c]}]
          IN  IF fetched = <<>>
              THEN /\ fpc' = "tick_done"
                   /\ prices' = <<>>
                   /\ todo' = {}
                   /\ disconnected_clients' = {}
                   /\ tick' = history
              ELSE /\ fpc' = "sending"
                   /\ prices' = fetched
                   /\ todo' = connected_clients
                   /\ disconnected_clients' = {}
                   /\ tick' = [history EXCEPT !.targets =
                                 connected_clients \X {Symbol(fetched[1])}]
    /\ UNCHANGED <<connected_clients, subscribed_symbols, hpc, open, pending,
                   clientSubs>>
    /\ UNCHANGED serverVars

\* The loop wakes up from asyncio.sleep and runs the tick up to its first
\* suspension.
TickStart ==
    TickFrom("sleep")

\* await client.send(message) returns or raises for one client of the copy
\* (line 148).  When it was the last client of the copy, line 156 runs and
\* the loop over the price records goes on: a price record whose copy of the
\* client set is empty is passed without a suspension.
SendOne(client) ==
    /\ fpc = "sending"
    /\ client \in todo
    /\ LET sym == Symbol(Head(prices))
           ok == open[client]
           step == AfterSend(client, ok, todo, disconnected_clients)
           sent == [tick EXCEPT
                      !.got = IF ok THEN @ \cup {<<client, sym>>} ELSE @,
                      !.failed = IF ok THEN @ ELSE @ \cup {<<client, sym>>}]
           left == RemoveDisconnected(connected_clients, step.disconnected)
       IN  IF step.todo # {}
           THEN /\ todo' = step.todo
                /\ disconnected_clients' = step.disconnected
                /\ tick' = sent
                /\ UNCHANGED <<fpc, prices, connected_clients>>
           ELSE /\ connected_clients' = left
                /\ disconnected_clients' = {}
                /\ IF Tail(prices) = <<>> \/ left = {}
                   THEN /\ fpc' = "tick_done"
                        /\ prices' = <<>>
                        /\ todo' = {}
                        /\ tick' = [sent EXCEPT
                                      !.fanned = @ \cup SymbolsOf(prices)]
                   ELSE /\ fpc' = "sending"
                        /\ prices' = Tail(prices)
                        /\ todo' = left
                        /\ tick' = [sent EXCEPT
                                      !.fanned = @ \cup {sym},
                                      !.targets = @ \cup
                                        (left \X {Symbol(prices[2])})]
    /\ UNCHANGED <<subscribed_symbols, hpc, open, pending, clientSubs>>
    /\ UNCHANGED serverVars

\* asyncio.sleep(1.0) is called (line 158): the tick is over.
Sleep ==
    /\ fpc = "tick_done"
    /\ fpc' = "sleep"
    /\ tick' = NoTick
    /\ UNCHANGED <<connected_clients, subscribed_symbols, hpc, open, pending,
                   prices, todo, disconnected_clients, clientSubs>>
    /\ UNCHANGED serverVars

-----------------------------------------------------------------------------
(* handle_client, lines 345-369 *)

\* What the model keeps of a message while its send is awaited: the
\* receiver, the type and the symbol.
Envelope(out) ==
    IF out = None THEN None
    ELSE Some([to |-> out[1].to, type |-> out[1].type,
               symbol |-> out[1].symbol])

Live(c) == hpc[c] \in {"hello", "recv", "send"}

\* A connection is accepted: the handler task registers it and suspends in
\* the send of the confirmation (lines 347-359).
Connect(c) ==
    /\ srv = "serving"
    /\ FeedSuspended
    /\ hpc[c] = "new"
    /\ hpc' = [hpc EXCEPT ![c] = "hello"]
    /\ open' = [open EXCEPT ![c] = TRUE]
    /\ connected_clients' = connected_clients \cup {c}
    /\ pending' = [pending EXCEPT
                     ![c] = Envelope(Some(Message(c, "connected", None,
                                                  mt5_connected)))]
    /\ UNCHANGED <<subscribed_symbols, clientSubs>>
    /\ UNCHANGED feedVars
    /\ UNCHANGED serverVars

\* The peer closes the connection, or the transport fails.
PeerClose(c) ==
    /\ FeedSuspended
    /\ Live(c)
    /\ open[c]
    /\ open' = [open EXCEPT ![c] = FALSE]
    /\ UNCHANGED <<connected_clients, subscribed_symbols, hpc, pending,
                   clientSubs>>
    /\ UNCHANGED feedVars
    /\ UNCHANGED serverVars

\* The send of the confirmation returns, and the handler waits for a
\* message; or it raises, and the finally clause runs (line 369).
Hello(c) ==
    /\ FeedSuspended
    /\ hpc[c] = "hello"
    /\ pending' = [pending EXCEPT ![c] = None]
    /\ IF open[c]
       THEN /\ hpc' = [hpc EXCEPT ![c] = "recv"]
            /\ UNCHANGED connected_clients
       ELSE /\ hpc' = [hpc EXCEPT ![c] = "done"]
            /\ connected_clients' = connected_clients \ {c}
    /\ UNCHANGED <<subscribed_symbols, open, clientSubs>>
    /\ UNCHANGED feedVars
    /\ UNCHANGED serverVars

\* The subscriptions of a client after one of its messages is handled.
Subscriptions(mine, message) ==
    IF message.json /\ message.symbol # None
    THEN CASE message.action = Some("subscribe") ->
                mine \cup {message.symbol[1]}
           [] message.action = Some("unsubscribe") ->
                mine \ {message.symbol[1]}
           [] OTHER -> mine
    ELSE mine

\* handle_client_message runs with one of the messages up to its first
\* suspension, the send of the response, or to its end when it sends nothing
\* (lines 361-362).  The handler is at `from`.
ReceiveFrom(c, from, messages) ==
    /\ FeedSuspended
    /\ hpc[c] = from
    /\ open[c]
    /\ \E message \in messages :
        \E venue \in VenuesFor(message) :
          LET done == handle_client_message(c, message, subscribed_symbols,
                                            venue)
              mine == Subscriptions(clientSubs[c], message)
          IN  /\ subscribed_symbols' = done.subs
              /\ pending' = [pending EXCEPT ![c] = Envelope(done.out)]
              /\ hpc' = [hpc EXCEPT
                           ![c] = IF done.out = None THEN "recv" ELSE "send"]
              /\ clientSubs' = [clientSubs EXCEPT ![c] = mine]
              /\ tick' = [tick EXCEPT
                            !.steady = @ \ ({c} \X (Symbols \ mine))]
    /\ UNCHANGED <<connected_clients, open, fpc, prices, todo,
                   disconnected_clients>>
    /\ UNCHANGED serverVars

\* A message about subscriptions arrives and is handled up to the first
\* suspension.
Receive(c) ==
    ReceiveFrom(c, "recv", SubscriptionMessages)

\* The send of a response returns, or it raises and the except clause at
\* line 214 logs it: either way the handler waits for the next message.
Reply(c) ==
    /\ FeedSuspended
    /\ hpc[c] = "send"
    /\ hpc' = [hpc EXCEPT ![c] = "recv"]
    /\ pending' = [pending EXCEPT ![c] = None]
    /\ UNCHANGED <<connected_clients, subscribed_symbols, open, clientSubs>>
    /\ UNCHANGED feedVars
    /\ UNCHANGED serverVars

\* The wait for a message raises ConnectionClosed, or the iteration ends:
\* the finally clause runs (line 369) and the handler task is over.
HandlerEnd(c) ==
    /\ FeedSuspended
    /\ hpc[c] = "recv"
    /\ ~open[c]
    /\ hpc' = [hpc EXCEPT ![c] = "done"]
    /\ connected_clients' = connected_clients \ {c}
    /\ clientSubs' = [clientSubs EXCEPT ![c] = {}]
    /\ UNCHANGED <<subscribed_symbols, open, pending>>
    /\ UNCHANGED feedVars
    /\ UNCHANGED serverVars

-----------------------------------------------------------------------------
Next ==
    \/ StartOk
    \/ StartFail
    \/ Serve
    \/ TickStart
    \/ \E c \in Clients : SendOne(c)
    \/ Sleep
    \/ \E c \in Clients : Connect(c)
    \/ \E c \in Clients : PeerClose(c)
    \/ \E c \in Clients : Hello(c)
    \/ \E c \in Clients : Receive(c)
    \/ \E c \in Clients : Reply(c)
    \/ \E c \in Clients : HandlerEnd(c)

Spec == Init /\ [][Next]_vars

-----------------------------------------------------------------------------
(* The gateway from start to stop.  Every call to the venue is a step of   *)
(* its own here: a task enters the call, and the call returns.  The calls  *)
(* are plain blocking calls of the mt5 module (lines 82, 233, 251, 282,    *)
(* 302, 326), so the thread of the event loop is inside the call until it  *)
(* returns.  Stopping is the cancellation of start_server in               *)
(* server.wait_closed (line 395), as asyncio.run does it on an interrupt   *)
(* since Python 3.11: the finally clause of lines 398-400 runs, and        *)
(* asyncio.run then cancels the tasks that are left.  CancelledError is no *)
(* Exception (Python 3.8), so no except clause of the tasks catches it.    *)

\* The messages of this specification: one command of each action, for one
\* symbol, and a text that is no JSON.
GatewayMessages ==
    {Command(Some("subscribe"), Some("EURUSD"), None, None, None, None),
     Command(Some("unsubscribe"), Some("EURUSD"), None, None, None, None),
     Command(Some("trade"), Some("EURUSD"), Some("buy"), Some(10), None, None),
     Command(Some("close"), None, None, None, None, Some(501)),
     Command(Some("account_info"), None, None, None, None, None),
     BadJson}

\* Handling the message calls the venue: mt5.symbol_info (line 175, and line
\* 233 for a trade without a price), mt5.order_send (line 251),
\* mt5.positions_get (line 282), mt5.account_info (line 206).
CallsVenue(message) ==
    /\ message.json
    /\ \/ message.action = Some("subscribe") /\ message.symbol # None
       \/ message.action \in {Some("trade"), Some("close"),
                              Some("account_info")}

\* The handler tasks that are inside a call to the venue.
HandlersInCall == {c \in Clients : hpc[c] \in {"greet", "call"}}

\* Faulty variant of EventLoopFree: the calls to the venue are awaited in
\* other threads, and the event loop runs other tasks meanwhile.
EventLoopFree_threads == TRUE

\* No task is inside a call to the venue: the thread of the event loop is
\* free to run a task.
EventLoopFree == fpc # "lookup" /\ HandlersInCall = {}

\* A connection is accepted: the handler task registers it (line 348) and
\* calls get_account_info for the confirmation (line 356).
Accept(c) ==
    /\ EventLoopFree
    /\ FeedSuspended
    /\ srv = "serving"
    /\ mt5_connected
    /\ hpc[c] = "new"
    /\ hpc' = [hpc EXCEPT ![c] = "greet"]
    /\ open' = [open EXCEPT ![c] = TRUE]
    /\ connected_clients' = connected_clients \cup {c}
    /\ UNCHANGED <<subscribed_symbols, pending, clientSubs>>
    /\ UNCHANGED feedVars
    /\ UNCHANGED serverVars

\* get_account_info returns, and the handler suspends in the send of the
\* confirmation (line 359).
Greet(c) ==
    /\ hpc[c] = "greet"
    /\ hpc' = [hpc EXCEPT ![c] = "hello"]
    /\ pending' = [pending EXCEPT
                     ![c] = Envelope(Some(Message(c, "connected", None,
                                                  mt5_connected)))]
    /\ UNCHANGED <<connected_clients, subscribed_symbols, open, clientSubs>>
    /\ UNCHANGED feedVars
    /\ UNCHANGED serverVars

GatewayPeerClose(c) ==
    /\ EventLoopFree
    /\ PeerClose(c)

GatewayHello(c) ==
    /\ EventLoopFree
    /\ Hello(c)

\* A message arrives whose handling does not call the venue.
ReceivePlain(c) ==
    /\ EventLoopFree
    /\ ReceiveFrom(c, "recv", {m \in GatewayMessages : ~CallsVenue(m)})

\* Faulty variant of AwaitingMessage: every message is handled in a task of
\* its own, and the next message is read while a response is being sent.
AwaitingMessage_tasks(c) == hpc[c] \in {"recv", "send"}

\* The handler is suspended in the iteration over the messages (line 361):
\* the call of handle_client_message for the message before has returned
\* (line 362 awaits it).
AwaitingMessage(c) == hpc[c] = "recv"

\* A message arrives whose handling calls the venue, and
\* handle_client_message runs up to the first of its calls.
EnterCall(c) ==
    /\ EventLoopFree
    /\ FeedSuspended
    /\ AwaitingMessage(c)
    /\ open[c]
    /\ hpc' = [hpc EXCEPT ![c] = "call"]
    /\ UNCHANGED <<connected_clients, subscribed_symbols, open, pending,
                   clientSubs>>
    /\ UNCHANGED feedVars
    /\ UNCHANGED serverVars

\* The calls to the venue of the message return, and
\* handle_client_message runs up to its first suspension.
ReturnCall(c) ==
    /\ HandlersInCall = {c}
    /\ ReceiveFrom(c, "call", {m \in GatewayMessages : CallsVenue(m)})

GatewayReply(c) ==
    /\ EventLoopFree
    /\ Reply(c)

GatewayHandlerEnd(c) ==
    /\ EventLoopFree
    /\ HandlerEnd(c)

\* The test of line 119.
TickEntered == subscribed_symbols # {} /\ connected_clients # {}

\* The loop wakes up with the while test true and the test of line 119
\* false: it goes to the sleep of line 158.
TickIdle ==
    /\ EventLoopFree
    /\ ~TickEntered
    /\ TickFrom("sleep")

\* The loop wakes up with both tests true and calls get_current_prices
\* (line 120).
TickLookup ==
    /\ EventLoopFree
    /\ fpc = "sleep"
    /\ running /\ mt5_connected
    /\ TickEntered
    /\ fpc' = "lookup"
    /\ UNCHANGED <<connected_clients, subscribed_symbols, hpc, open, pending,
                   prices, todo, disconnected_clients, clientSubs, tick>>
    /\ UNCHANGED serverVars

\* get_current_prices returns, and the tick runs up to its first suspension.
TickFetched ==
    /\ HandlersInCall = {}
    /\ TickFrom("lookup")

\* Something in the tick other than a send raises: the except clause of
\* line 160 logs it, and the loop sleeps (line 162) and goes on.
TickRaise ==
    /\ HandlersInCall = {}
    /\ fpc = "lookup"
    /\ fpc' = "sleep"
    /\ UNCHANGED <<connected_clients, subscribed_symbols, hpc, open, pending,
                   prices, todo, disconnected_clients, clientSubs, tick>>
    /\ UNCHANGED serverVars

GatewaySendOne(c) ==
    /\ EventLoopFree
    /\ SendOne(c)

GatewaySleep ==
    /\ EventLoopFree
    /\ Sleep

\* The loop wakes up from asyncio.sleep with the while test of line 117
\* false, and the task returns.
FeedExit ==
    /\ EventLoopFree
    /\ fpc = "sleep"
    /\ ~(running /\ mt5_connected)
    /\ fpc' = "ended"
    /\ UNCHANGED <<connected_clients, subscribed_symbols, hpc, open, pending,
                   prices, todo, disconnected_clients, clientSubs, tick>>
    /\ UNCHANGED serverVars

\* start_server is cancelled in server.wait_closed: the finally clause
\* clears running and calls mt5.shutdown (lines 398-400), and start_server
\* is over.
Shutdown ==
    /\ EventLoopFree
    /\ FeedSuspended
    /\ srv = "serving"
    /\ srv' = "stopped"
    /\ running' = FALSE
    /\ life' = [life EXCEPT !.shutdowns = @ + 1]
    /\ UNCHANGED <<mt5_connected, connected_clients, subscribed_symbols, hpc,
                   open, pending, clientSubs, call>>
    /\ UNCHANGED feedVars

\* asyncio.run cancels the price feed task after start_server is over:
\* CancelledError is raised in the await the task is suspended in, the sleep
\* of line 158 or the send of line 148, and ends the task.
CancelFeed ==
    /\ EventLoopFree
    /\ srv = "stopped"
    /\ fpc \in {"sleep", "sending"}
    /\ fpc' = "ended"
    /\ prices' = <<>>
    /\ todo' = {}
    /\ disconnected_clients' = {}
    /\ tick' = NoTick
    /\ UNCHANGED <<connected_clients, subscribed_symbols, hpc, open, pending,
                   clientSubs>>
    /\ UNCHANGED serverVars

\* asyncio.run cancels a handler task after start_server is over:
\* CancelledError is raised in the await the handler is suspended in, the
\* finally clause runs (line 369) and the task is over.
CancelHandler(c) ==
    /\ EventLoopFree
    /\ FeedSuspended
    /\ srv = "stopped"
    /\ Live(c)
    /\ hpc' = [hpc EXCEPT ![c] = "done"]
    /\ connected_clients' = connected_clients \ {c}
    /\ pending' = [pending EXCEPT ![c] = None]
    /\ clientSubs' = [clientSubs EXCEPT ![c] = {}]
    /\ UNCHANGED <<subscribed_symbols, open>>
    /\ UNCHANGED feedVars
    /\ UNCHANGED serverVars

NextGateway ==
    \/ StartOk
    \/ StartFail
    \/ Serve
    \/ Shutdown
    \/ TickIdle
    \/ TickLookup
    \/ TickFetched
    \/ TickRaise
    \/ \E c \in Clients : GatewaySendOne(c)
    \/ GatewaySleep
    \/ FeedExit
    \/ CancelFeed
    \/ \E c \in Clients : Accept(c)
    \/ \E c \in Clients : Greet(c)
    \/ \E c \in Clients : GatewayPeerClose(c)
    \/ \E c \in Clients : GatewayHello(c)
    \/ \E c \in Clients : ReceivePlain(c)
    \/ \E c \in Clients : EnterCall(c)
    \/ \E c \in Clients : ReturnCall(c)
    \/ \E c \in Clients : GatewayReply(c)
    \/ \E c \in Clients : GatewayHandlerEnd(c)
    \/ \E c \in Clients : CancelHandler(c)

SpecGateway == Init /\ [][NextGateway]_vars

-----------------------------------------------------------------------------
(* handle_client_message applied on its own: one call, from a client, with *)
(* a message, the subscribed symbols it finds and the venue's answers.     *)

Applied(c, message, subs, venue) ==
    [websocket |-> c, message |-> message, subs |-> subs, venue |-> venue,
     done |-> handle_client_message(c, message, subs, venue)]

otherVars == <<srv, mt5_connected, running, connected_clients,
               subscribed_symbols, hpc, open, pending, clientSubs, fpc,
               prices, todo, disconnected_clients, tick, life>>

CallSubscribe ==
    /\ call = NoCall
    /\ \E c \in Clients :
        \E message \in {m \in ClientMessages : m.action = Some("subscribe")} :
          \E subs \in SUBSET Symbols : \E venue \in VenuesFor(message) :
            call' = Applied(c, message, subs, venue)
    /\ UNCHANGED otherVars

CallUnsubscribe ==
    /\ call = NoCall
    /\ \E c \in Clients :
        \E message \in {m \in ClientMessages : m.action = Some("unsubscribe")} :
          \E subs \in SUBSET Symbols : \E venue \in VenuesFor(message) :
            call' = Applied(c, message, subs, venue)
    /\ UNCHANGED otherVars

CallTrade ==
    /\ call = NoCall
    /\ \E c \in Clients : \E message \in TradeCommands :
        \E subs \in SUBSET Symbols : \E venue \in VenuesFor(message) :
          call' = Applied(c, message, subs, venue)
    /\ UNCHANGED otherVars

CallClose ==
    /\ call = NoCall
    /\ \E c \in Clients : \E message \in CloseCommands :
        \E subs \in SUBSET Symbols : \E venue \in VenuesFor(message) :
          call' = Applied(c, message, subs, venue)
    /\ UNCHANGED otherVars

\* account_info, an unknown action, no action, a text that is no JSON.
CallOther ==
    /\ call = NoCall
    /\ \E c \in Clients :
        \E message \in {m \in ClientMessages :
                          m.action \notin {Some("subscribe"),
                                           Some("unsubscribe"),
                                           Some("trade"), Some("close")}} :
          \E subs \in SUBSET Symbols : \E venue \in VenuesFor(message) :
            call' = Applied(c, message, subs, venue)
    /\ UNCHANGED otherVars

NextCommand ==
    \/ CallSubscribe
    \/ CallUnsubscribe
    \/ CallTrade
    \/ CallClose
    \/ CallOther

SpecCommand == Init /\ [][NextCommand]_vars

\* The call history holds a call of the action.
Called(action) == call.websocket \in Clients /\ call.message.action = Some(action)

-----------------------------------------------------------------------------
(* Claims about one command, under SpecCommand *)

\* The requests the call handed to mt5.order_send.
Orders == call.done.orders

\* What mt5.order_send returned to the call, when it was called.
Answer == call.venue.order_send

\* The result dictionary the call sends back.
Reply_data == call.done.out[1].data

\* C7: a trade command calls mt5.order_send at most once; when the venue
\* returns TRADE_RETCODE_DONE the result has success=true with the venue's
\* ticket and price and the command's volume, symbol and type; when it
\* returns another code the result has success=false with the venue's
\* comment and retcode.
C7_TradeSingleShot ==
    Called("trade") =>
        /\ Len(Orders) <= 1
        /\ call.done.out # None
        /\ (Len(Orders) = 1 /\ Answer # None
                /\ Answer[1].retcode = TRADE_RETCODE_DONE) =>
             /\ Reply_data.success = TRUE
             /\ Reply_data.ticket = Some(Answer[1].order)
             /\ Reply_data.price = Some(Answer[1].price)
             /\ Reply_data.volume = Some(Orders[1].volume)
             /\ Reply_data.symbol = call.message.symbol
             /\ Reply_data.type = call.message.type
        /\ (Len(Orders) = 1 /\ Answer # None
                /\ Answer[1].retcode # TRADE_RETCODE_DONE) =>
             /\ Reply_data.success = FALSE
             /\ Reply_data.error = Some(<<"Trade failed: ", Answer[1].comment>>)
             /\ Reply_data.retcode = Some(Answer[1].retcode)

\* C7 witness: a trade the venue rejected, answered with success=false
\* after one request.
C7_Witness ==
    /\ Called("trade")
    /\ Len(Orders) = 1
    /\ Answer # None
    /\ Answer[1].retcode # TRADE_RETCODE_DONE
    /\ Reply_data.success = FALSE

\* C8: a close command for a ticket without an open position is answered
\* with success=false and the error "Position not found", and
\* mt5.order_send is not called.
C8_CloseNotFound ==
    (/\ Called("close")
     /\ call.message.ticket # None
     /\ call.venue.positions[call.message.ticket[1]] = None) =>
        /\ call.done.out # None
        /\ Reply_data.success = FALSE
        /\ Reply_data.error = Some(<<"Position not found">>)
        /\ Orders = <<>>

\* C8 witness: a close command for a ticket without an open position was
\* handled.
C8_Witness ==
    /\ Called("close")
    /\ call.message.ticket # None
    /\ call.venue.positions[call.message.ticket[1]] = None
    /\ call.done.out[1].type = "close_result"

\* The quote mt5.symbol_info had for the symbol of the trade command.
TradeQuote == call.venue.quotes[call.message.symbol[1]][1]

\* C9 as claimed: the request of a trade command without a price carries
\* the ask for a buy and the bid for a sell, and the request of a command
\* with a price carries that price.
C9_PriceAsClaimed ==
    (Called("trade") /\ Orders # <<>>) =>
        IF call.message.price = None
        THEN /\ call.message.type = Some("buy") =>
                  Orders[1].price = TradeQuote.ask
             /\ call.message.type = Some("sell") =>
                  Orders[1].price = TradeQuote.bid
        ELSE Orders[1].price = call.message.price[1]

\* C9 amended: the request of a trade command without a price, or with the
\* price zero, carries the ask for a buy and the bid for a sell; the request
\* of a command with a price other than zero carries that price.
C9_PriceOfRequest ==
    (Called("trade") /\ Orders # <<>>) =>
        IF call.message.price = None \/ call.message.price = Some(0)
        THEN /\ call.message.type = Some("buy") =>
                  Orders[1].price = TradeQuote.ask
             /\ call.message.type = Some("sell") =>
                  Orders[1].price = TradeQuote.bid
        ELSE Orders[1].price = call.message.price[1]

\* C9 witness: a buy with the price zero was sent with the ask.
C9_Witness ==
    /\ Called("trade")
    /\ call.message.price = Some(0)
    /\ call.message.type = Some("buy")
    /\ Orders # <<>>
    /\ Orders[1].price = TradeQuote.ask

\* C10: a subscribe command with a symbol adds the symbol to
\* subscribed_symbols; when the quote lookup succeeds it sends one price
\* message for that symbol, to the requesting client; when the lookup fails
\* it sends nothing, and the symbol is added all the same.
C10_SubscribeReply ==
    (Called("subscribe") /\ call.message.symbol # None) =>
        /\ call.done.subs = call.subs \cup {call.message.symbol[1]}
        /\ Orders = <<>>
        /\ IF call.venue.quotes[call.message.symbol[1]] # None
           THEN /\ call.done.out # None
                /\ call.done.out[1].to = call.websocket
                /\ call.done.out[1].type = "price"
                /\ call.done.out[1].symbol = call.message.symbol
                /\ call.done.out[1].data.symbol = call.message.symbol[1]
           ELSE call.done.out = None

\* C10 witness: a subscribe command whose quote lookup failed added a
\* symbol that was not subscribed, and sent nothing.
C10_Witness ==
    /\ Called("subscribe")
    /\ call.message.symbol # None
    /\ call.venue.quotes[call.message.symbol[1]] = None
    /\ call.message.symbol[1] \notin call.subs
    /\ call.message.symbol[1] \in call.done.subs
    /\ call.done.out = None

\* A message the protocol calls malformed: not parseable, without a known
\* action, or without a field its action requires.
Malformed(message) ==
    \/ ~message.json
    \/ message.action \notin {Some(action) : action \in Actions}
    \/ /\ message.action \in {Some("subscribe"), Some("unsubscribe")}
       /\ message.symbol = None
    \/ /\ message.action = Some("trade")
       /\ (message.symbol = None \/ message.type = None)
    \/ /\ message.action = Some("close")
       /\ message.ticket = None

\* C11: a malformed message is dropped: the call sends no message, hands no
\* request to mt5.order_send and leaves the subscriptions as they were.
C11_MalformedDropped ==
    (call.websocket \in Clients /\ Malformed(call.message)) =>
        /\ call.done.out = None
        /\ Orders = <<>>
        /\ call.done.subs = call.subs

\* C12: the request of a trade command has a positive volume: the minimum
\* lot when the command has no volume or one that is not positive, and the
\* command's volume otherwise.
C12_PositiveVolume ==
    (Called("trade") /\ Orders # <<>>) =>
        /\ Orders[1].volume > 0
        /\ Orders[1].volume =
             IF call.message.volume = None \/ call.message.volume[1] <= 0
             THEN DEFAULT_VOLUME
             ELSE call.message.volume[1]

\* C17: a trade command is answered with one trade_result and a close
\* command with one close_result, also when the upstream call raised, and
\* the message goes to the connection the command came from.
C17_ResultToRequester ==
    /\ Called("trade") =>
         /\ call.done.out # None
         /\ call.done.out[1].type = "trade_result"
         /\ call.done.out[1].to = call.websocket
         /\ Reply_data.success \in BOOLEAN
    /\ Called("close") =>
         /\ call.done.out # None
         /\ call.done.out[1].type = "close_result"
         /\ call.done.out[1].to = call.websocket
         /\ Reply_data.success \in BOOLEAN

\* C17 witness: a trade whose quote lookup raised was answered to its
\* sender with the error.
C17_Witness ==
    /\ Called("trade")
    /\ Orders = <<>>
    /\ call.done.out # None
    /\ call.done.out[1].to = call.websocket
    /\ Reply_data = Raised

\* The position the venue holds for the ticket of the close command.
ClosedPosition == call.venue.positions[call.message.ticket[1]][1]

\* C18: a close command for a ticket with an open position hands one
\* request to mt5.order_send, of the side opposite to the position's, with
\* the position's volume and symbol and the ticket; the result has
\* success=true exactly when the venue returned TRADE_RETCODE_DONE, and
\* otherwise success=false with the venue's comment and retcode.
C18_CloseOpposite ==
    (/\ Called("close")
     /\ call.message.ticket # None
     /\ call.venue.positions[call.message.ticket[1]] # None) =>
        /\ Len(Orders) = 1
        /\ Orders[1].type = IF ClosedPosition.type = "ORDER_TYPE_BUY"
                            THEN "ORDER_TYPE_SELL" ELSE "ORDER_TYPE_BUY"
        /\ Orders[1].volume = ClosedPosition.volume
        /\ Orders[1].symbol = Some(ClosedPosition.symbol)
        /\ Orders[1].position = call.message.ticket
        /\ call.done.out # None
        /\ Reply_data.success =
             (Answer # None /\ Answer[1].retcode = TRADE_RETCODE_DONE)
        /\ (Answer # None /\ Answer[1].retcode # TRADE_RETCODE_DONE) =>
             /\ Reply_data.error =
                  Some(<<"Close failed: ", Answer[1].comment>>)
             /\ Reply_data.retcode = Some(Answer[1].retcode)

\* C18 witness: a close of a sell position the venue rejected, after one
\* buy request.
C18_Witness ==
    /\ Called("close")
    /\ call.message.ticket # None
    /\ call.venue.positions[call.message.ticket[1]] # None
    /\ ClosedPosition.type = "ORDER_TYPE_SELL"
    /\ Len(Orders) = 1
    /\ Orders[1].type = "ORDER_TYPE_BUY"
    /\ Answer # None
    /\ Answer[1].retcode # TRADE_RETCODE_DONE
    /\ Reply_data.success = FALSE

-----------------------------------------------------------------------------
(* Claims about subscriptions and the broadcast, under Spec *)

\* The clients whose handler runs and that subscribed to the symbol and
\* have not unsubscribed from it since.
Subscribers(s) == {c \in Clients : Live(c) /\ s \in clientSubs[c]}

\* No connection has been closed or lost so far.
NoneClosed == \A c \in Clients : hpc[c] # "done" /\ (Live(c) => open[c])

\* C1: after any sequence of subscribe and unsubscribe commands of the
\* connected clients (no connection has been closed), subscribed_symbols is
\* the set of the symbols that at least one client is subscribed to.
C1_ActiveIsSubscribed ==
    NoneClosed =>
        subscribed_symbols = {s \in Symbols : Subscribers(s) # {}}

\* C2: when a client leaves connected_clients, the symbols only that client
\* was subscribed to are not in subscribed_symbols afterwards.
C2_DeregisterDropsSubscriptions ==
    [][\A c \in Clients :
         (c \in connected_clients /\ c \notin connected_clients') =>
            \A s \in clientSubs[c] :
               Subscribers(s) \subseteq {c} => s \notin subscribed_symbols']_vars

\* C3: a market_data message for a symbol is sent only to a client that is
\* subscribed to the symbol when it is sent.
C3_OnlyToSubscribers ==
    [][\A p \in tick'.got \ tick.got : p[2] \in clientSubs[p[1]]]_vars

\* The active symbols whose quote lookup failed in the tick.
FailedLookups == tick.active \ tick.avail

\* C4: at the end of every tick, a client that was connected and subscribed
\* to a symbol from the beginning of the tick to its end has got the
\* market_data message of the symbol, unless the quote lookup of the symbol
\* failed in the tick.
C4_SubscriberKeepsReceiving ==
    fpc = "tick_done" =>
        \A p \in tick.steady :
            (Live(p[1]) /\ open[p[1]] /\ p[2] \notin FailedLookups) =>
                p \in tick.got

\* C5: a client whose send failed for a symbol is out of connected_clients
\* once the loop over the clients has ended for that symbol; every client of
\* the copy taken for a symbol has been sent the symbol's message, and has
\* got it unless its own send failed; and the tick goes through all the
\* price records it fetched.
C5_SendFailureDoesNotAbort ==
    /\ \A p \in tick.failed :
          p[2] \in tick.fanned => p[1] \notin connected_clients
    /\ fpc = "tick_done" =>
          /\ tick.targets = tick.got \cup tick.failed
          /\ tick.fanned = tick.fetched

\* C5 witness: at the end of a tick, the send to one client failed for a
\* symbol, another client got that symbol's message, and a message of
\* another symbol was delivered too.
C5_Witness ==
    /\ fpc = "tick_done"
    /\ \E c, d \in Clients : \E s, t \in Symbols :
          /\ c # d /\ s # t
          /\ <<c, s>> \in tick.failed
          /\ <<d, s>> \in tick.got
          /\ <<d, t>> \in tick.got
          /\ c \notin connected_clients

\* C6: at the end of every tick, every active symbol the venue had a quote
\* for has been fanned out, whatever lookups of other symbols failed.
C6_QuoteFailureDoesNotAbort ==
    fpc = "tick_done" => tick.avail \subseteq tick.fanned

\* C6 witness: at the end of a tick, the lookup of one active symbol failed
\* and a client got the message of another.
C6_Witness ==
    /\ fpc = "tick_done"
    /\ FailedLookups # {}
    /\ \E c \in Clients : \E s \in tick.avail : <<c, s>> \in tick.got

-----------------------------------------------------------------------------
(* Claims about starting and stopping *)

\* C16: when mt5.initialize, mt5.login or the first mt5.account_info fails
\* (or raises), no price feed task is created and no connection is ever
\* accepted; a price feed task is created at most once, and only with
\* mt5_connected set.
C16_NoServiceAfterFailedInit ==
    /\ life.init \notin {"none", "ok"} =>
         /\ fpc = "off"
         /\ life.feeds = 0
         /\ ~running
         /\ connected_clients = {}
         /\ \A c \in Clients : hpc[c] = "new"
    /\ life.feeds <= 1
    /\ fpc # "off" => (mt5_connected /\ life.feeds = 1)

\* C16 witness: start_server has returned after a failed login, with no
\* price feed task.
C16_Witness ==
    /\ srv = "failed"
    /\ life.init = "login_failed"
    /\ fpc = "off"

\* The handler task of the connection has started and has not ended.
Running(c) == hpc[c] \notin {"new", "done"}

\* The calls to the venue in progress, over all tasks.
CallsInProgress ==
    Cardinality(HandlersInCall) + (IF fpc = "lookup" THEN 1 ELSE 0)

-----------------------------------------------------------------------------
(* Claims about the tasks, under SpecGateway *)

\* C13: the commands of a connection are handled one at a time: the
\* handling of a command begins only when the handler waits for a message
\* and has no response left to send, and once begun it goes on to its calls
\* to the venue and the send of its response before the handler takes
\* another message.
C13_OneCommandAtATime ==
    [][\A c \in Clients :
         /\ (hpc'[c] = "call" /\ hpc[c] # "call") =>
              (hpc[c] = "recv" /\ pending[c] = None)
         /\ hpc[c] = "call" => hpc'[c] \in {"call", "send", "recv"}
         /\ hpc[c] = "send" => hpc'[c] \in {"send", "recv", "done"}]_vars

\* C13 witness: a handler sends the result of its trade while the price
\* feed is in the middle of a tick and another handler waits for a message.
C13_Witness ==
    \E c, d \in Clients :
        /\ c # d
        /\ hpc[c] = "send"
        /\ pending[c] # None
        /\ pending[c][1].type = "trade_result"
        /\ hpc[d] = "recv"
        /\ fpc = "sending"

\* C14: at most one call to the venue is in progress, over the handler
\* tasks and the price feed task.
C14_OneVenueCall == CallsInProgress <= 1

\* C14 witness: a handler is inside a call to the venue while another
\* connection is open and its handler waits for a message, and the price
\* feed sleeps with a symbol to poll.
C14_Witness ==
    \E c, d \in Clients :
        /\ c # d
        /\ hpc[c] = "call"
        /\ hpc[d] = "recv"
        /\ open[d]
        /\ fpc = "sleep"
        /\ subscribed_symbols # {}

\* C15: after a successful start, mt5.shutdown is called once, and only
\* when the price feed task and every handler task are over, so that no
\* call to the venue follows it.
C15_ReleaseAfterLoops ==
    (life.init = "ok" /\ life.shutdowns > 0) =>
        /\ life.shutdowns = 1
        /\ fpc \in {"off", "ended"}
        /\ \A c \in Clients : ~Running(c)

\* C19: once running is cleared the price feed goes on with the tick it is
\* in, begins no other tick and ends; while running is set and the session
\* is live the task does not end.
C19_CooperativeStop ==
    [][/\ (~running /\ fpc = "sending") => fpc' \in {"sending", "tick_done"}
       /\ (~running /\ fpc = "tick_done") => fpc' \in {"tick_done", "sleep"}
       /\ (~running /\ fpc = "sleep") => fpc' \in {"sleep", "ended"}
       /\ (running /\ mt5_connected /\ fpc # "ended") => fpc' # "ended"]_vars

\* C20 as claimed: connected_clients holds exactly the connections whose
\* handler task is running.
C20_ExactlyRunning ==
    connected_clients = {c \in Clients : Running(c)}

\* C20 amended: connected_clients holds only connections whose handler task
\* is running; a connection is added when its handler starts and at no
\* other time, and it is removed only when its handler ends or when a send
\* of the broadcast to it has failed.
C20_RunningUnlessSendFailed ==
    [][\A c \in Clients :
         /\ c \in connected_clients' => Running(c)'
         /\ (hpc[c] = "new" /\ hpc'[c] # "new") => c \in connected_clients'
         /\ (c \in connected_clients' /\ c \notin connected_clients) =>
              hpc[c] = "new"
         /\ (c \in connected_clients /\ c \notin connected_clients') =>
              \/ hpc'[c] = "done"
              \/ \E s \in Symbols : <<c, s>> \in tick'.failed]_vars

\* C20 witness: a handler waits for a message after the broadcast has
\* removed its connection.
C20_Witness ==
    \E c \in Clients :
        /\ hpc[c] = "recv"
        /\ c \notin connected_clients

====
